---- MODULE Spec2Model ----
(***************************************************************************)
(* Model of package archiver (archivehandler.go): type detection from the  *)
(* leading bytes of a file, cataloging of the entries of a zip, 7z or      *)
(* gzipped tar container, lookup by name and extraction of one entry.      *)
(*                                                                         *)
(* The container codecs (archive/zip, archive/tar, compress/gzip,          *)
(* bodgit/sevenzip) are the environment.  One file lives on the disk; it   *)
(* never changes during a behaviour.  What the codecs do on it (which      *)
(* headers they yield, how many bytes one Read delivers, which call fails) *)
(* is a property of that file and is part of its description.              *)
(***************************************************************************)
EXTENDS Integers, Sequences, FiniteSets, TLC

\* ---- bounds of the model ----
MaxMembers == 2
MaxPayload == 2
MaxLeak == 2

\* ---- type ArchiveType (iota constants) ----
ARCHIVE_UNINIT == 0
ARCHIVE_NA == 1
ARCHIVE_ZIP == 2
ARCHIVE_TGZ == 3
ARCHIVE_7Z == 4

\* make([]byte, 5) in getArchiveType, and the size below which no read is made
SniffLen == 5

\* ---- error values: a sequence of strings, nil is the empty sequence ----
Nil == <<>>
EOF == <<"EOF">>
ENOENT == <<"no such file or directory">>
EACCES == <<"permission denied">>
ErrFormat == <<"invalid header">>
ErrEntry == <<"entry cannot be opened">>
ErrTar == <<"tar: invalid tar header">>
ErrUnsupported == <<"unsupported archive type">>

\* fmt.Errorf("Could not open %s.  %w", fullname, err)
Wrap(fullname, err) == <<"Could not open">> \o fullname \o err

Min(a, b) == IF a < b THEN a ELSE b

\* make([]byte, n): n zero bytes
MakeBytes(n) == [i \in 1..n |-> 0]

\* ---- paths: a path is the sequence of its components ----
Getwd == <<"cwd">>
HasSeparator(path) == Len(path) > 1
Dir(path) == SubSeq(path, 1, Len(path) - 1)
Base(path) == path[Len(path)]
Join(dir, name) == dir \o <<name>>

\* ---- the file on the disk ----
Names == {"a", "b"}
FileNames == {"f.zip", "f.txt"}

ZipHead == <<80, 75, 3, 4, 20>>
SevenZHead == <<55, 122, 188, 175, 39>>
GzHead == <<31, 139, 8, 0, 0>>
ArchiveHeads == {ZipHead, SevenZHead, GzHead}
OtherHeads ==
    { <<>>, <<31, 139>>, <<80, 75, 3>>, <<80, 75, 3, 4>>, <<55, 122, 188, 175>>,
      <<80, 75, 5, 6, 0>>, <<80, 75, 3, 5, 0>>, <<55, 122, 188, 0, 0>>,
      <<80, 122, 188, 175, 39>>, <<31, 140, 8, 0, 0>>, <<37, 80, 68, 70, 45>> }

\* the payload of the k-th member: n non-zero bytes, distinct per member
Payload(k, n) == [i \in 1..n |-> 16 * k + i]

\* the name lists: the first member is "a", the later ones any name (also a repeated one)
NameLists ==
    UNION { { nm \in [1..n -> Names] : n > 0 => nm[1] = "a" } : n \in 0..MaxMembers }

\* the member lists: the k-th member holds (l + k - 1) mod (MaxPayload + 1) bytes
MemberLists ==
    { [k \in 1..Len(nm) |-> [name |-> nm[k], data |-> Payload(k, (l + k - 1) % (MaxPayload + 1))]] :
        nm \in NameLists, l \in 0..MaxPayload }

NoFault == [kind |-> "none", at |-> 0]
\* what can go wrong on a file with the given head and members: the file cannot be
\* opened, the codec rejects it, the content Read of a member that holds bytes fails,
\* the k-th tar header is corrupt, the content stream of a member cannot be opened
Faults(head, m) ==
    { [kind |-> "perm", at |-> 0], [kind |-> "codec", at |-> 0] }
    \cup { [kind |-> "read", at |-> k] : k \in {j \in 1..Len(m) : Len(m[j].data) > 0} }
    \cup (IF head = GzHead
          THEN { [kind |-> "tar", at |-> k] : k \in 1..(Len(m) + 1) }
          ELSE { [kind |-> "entryopen", at |-> k] : k \in 1..Len(m) })

FileSize(head) == IF Len(head) < SniffLen THEN Len(head) ELSE 64

DiskAt(fname, h, m, c, f) ==
    [fullname |-> Join(Getwd, fname), head |-> h, size |-> FileSize(h),
     members |-> m, chunk |-> c, fault |-> f]

\* containers of the three formats: every member list, with a sound file under every
\* size of the decoder's Read, or with one fault under a decoder that reads at once
ArchiveDisks ==
    UNION { UNION { { DiskAt("f.zip", h, m, c, NoFault) : c \in 1..MaxPayload }
                    \cup { DiskAt("f.zip", h, m, MaxPayload, f) : f \in Faults(h, m) } :
                    m \in MemberLists } :
            h \in ArchiveHeads }

\* files that are no container: nothing for a codec to read
PlainDisks == { DiskAt("f.zip", h, <<>>, MaxPayload, NoFault) : h \in OtherHeads }

\* one fixed member list under every head and every file name
SniffMembers == <<[name |-> "a", data |-> Payload(1, MaxPayload)]>>
SniffDisks ==
    { DiskAt(fname, h, IF h \in ArchiveHeads THEN SniffMembers ELSE <<>>, MaxPayload, f) :
        fname \in FileNames, h \in ArchiveHeads \cup OtherHeads,
        f \in {NoFault, [kind |-> "perm", at |-> 0]} }

VARIABLES
    disk,   \* the file on the disk
    ar,     \* the ArchiveInfo the last GetArchiveInfo returned
    ret,    \* what the last call returned
    open,   \* codec and file handles opened by finished calls and never closed
    first   \* the first GetBytes call made on an entry of ar.Files(), what it returned,
            \* and whether GetBytes was called on that entry again

vars == <<disk, ar, ret, open, first>>

\* ---- the operating system and the codecs on the file ----
Exists(fullname) == fullname = disk.fullname

\* os.Stat
Stat(fullname) ==
    IF Exists(fullname) THEN [err |-> Nil, size |-> disk.size] ELSE [err |-> ENOENT, size |-> 0]

\* os.Open
OsOpen(fullname) ==
    IF ~Exists(fullname) THEN ENOENT
    ELSE IF disk.fault.kind = "perm" THEN EACCES
    ELSE Nil

\* file.Read(filebytes): the leading bytes of the file overwrite the front of the buffer
FileRead(filebytes) ==
    [i \in 1..Len(filebytes) |-> IF i <= Len(disk.head) THEN disk.head[i] ELSE filebytes[i]]

\* the format the codecs recognise the file as
Format ==
    IF disk.head = ZipHead THEN ARCHIVE_ZIP
    ELSE IF disk.head = SevenZHead THEN ARCHIVE_7Z
    ELSE IF disk.head = GzHead THEN ARCHIVE_TGZ
    ELSE ARCHIVE_NA

\* gzip.NewReader(file) and the header check of the zip and 7z readers, on an open file
CodecHeader(format) ==
    IF Format # format \/ disk.fault.kind = "codec" THEN ErrFormat ELSE Nil

\* zip.OpenReader, sevenzip.OpenReader: the error of opening the file with the codec
CodecOpen(fullname, format) ==
    IF OsOpen(fullname) # Nil THEN OsOpen(fullname) ELSE CodecHeader(format)

\* zipReader.File: the entries of the container in the codec's order
ReaderFile == disk.members

\* fileInZip.Open()
EntryOpen(k) == IF disk.fault = [kind |-> "entryopen", at |-> k] THEN ErrEntry ELSE Nil

\* does a content Read of member k fail
ReadFails(k) == disk.fault = [kind |-> "read", at |-> k]

\* readCloser.Read(buffer), tarReader.Read(buffer) on member k: one Read delivers
\* at most disk.chunk bytes and at most len(buffer); a failing Read delivers none
ContentRead(buffer, k) ==
    LET data == disk.members[k].data
        n == IF ReadFails(k) THEN 0 ELSE Min(Len(buffer), Min(Len(data), disk.chunk))
    IN [i \in 1..Len(buffer) |-> IF i <= n THEN data[i] ELSE buffer[i]]

\* tarReader.Next(), k-th call: the header (0: nil) and the error
TarNext(k) ==
    IF disk.fault.kind = "tar" /\ disk.fault.at <= k THEN [head |-> 0, err |-> ErrTar]
    ELSE IF k > Len(disk.members) THEN [head |-> 0, err |-> EOF]
    ELSE [head |-> k, err |-> Nil]

\* ---- type ArchivedFile, type ArchiveInfo ----
ArchivedFile(archivefile, archivetype, name, size) ==
    [archivefile |-> archivefile, archivetype |-> archivetype, name |-> name, size |-> size]

\* var arinstance ArchiveInfo: the zero value
ZeroInfo ==
    [path |-> <<>>, name |-> "", fullname |-> <<>>, size |-> 0,
     ArchiveType |-> ARCHIVE_UNINIT, files |-> <<>>]

\* ---- func (ar *ArchiveInfo) getArchiveType() error ----
\* the result of a step of a call: the ArchiveInfo, the error, handles opened and closed
Step(a, err, opened, closed) == [ar |-> a, err |-> err, opened |-> opened, closed |-> closed]

Classify(filebytes) ==
    IF filebytes[1] = 80 /\ filebytes[2] = 75 /\ filebytes[3] = 3 /\ filebytes[4] = 4
        THEN ARCHIVE_ZIP
    ELSE IF filebytes[1] = 55 /\ filebytes[2] = 122 /\ filebytes[3] = 188 /\ filebytes[4] = 175
        THEN ARCHIVE_7Z
    ELSE IF filebytes[1] = 31 /\ filebytes[2] = 139
        THEN ARCHIVE_TGZ
    ELSE ARCHIVE_NA

\* variant: the size test admits a file of four bytes
getArchiveType_FourBytes(a) ==
    IF a.size < SniffLen - 1 THEN Step([a EXCEPT !.ArchiveType = ARCHIVE_NA], Nil, 0, 0)
    ELSE IF OsOpen(a.fullname) # Nil THEN Step(a, OsOpen(a.fullname), 0, 0)
    ELSE Step([a EXCEPT !.ArchiveType = Classify(FileRead(MakeBytes(SniffLen)))], Nil, 1, 1)

getArchiveType(a) ==
    IF a.size < SniffLen THEN Step([a EXCEPT !.ArchiveType = ARCHIVE_NA], Nil, 0, 0)
    ELSE IF OsOpen(a.fullname) # Nil THEN Step(a, OsOpen(a.fullname), 0, 0)
    ELSE Step([a EXCEPT !.ArchiveType = Classify(FileRead(MakeBytes(SniffLen)))], Nil, 1, 1)

\* ---- the three catalogers ----
RECURSIVE AppendEntries(_, _, _, _)
\* for _, fileInZip := range zipReader.File { ar.files = append(ar.files, arFile) }, from member k on
AppendEntries(files, fullname, archivetype, k) ==
    IF k > Len(ReaderFile) THEN files
    ELSE AppendEntries(
            Append(files, ArchivedFile(fullname, archivetype, ReaderFile[k].name,
                                       Len(ReaderFile[k].data))),
            fullname, archivetype, k + 1)

loadFilesInZipArchive(a) ==
    IF CodecOpen(a.fullname, ARCHIVE_ZIP) # Nil
        THEN Step(a, Wrap(a.fullname, CodecOpen(a.fullname, ARCHIVE_ZIP)), 0, 0)
    ELSE Step([a EXCEPT !.files = AppendEntries(a.files, a.fullname, ARCHIVE_ZIP, 1)], Nil, 1, 1)

\* variant: the 7z cataloger tags its entries with the zip constant
loadFilesIn7ZArchive_ZipTag(a) ==
    IF CodecOpen(a.fullname, ARCHIVE_7Z) # Nil
        THEN Step(a, Wrap(a.fullname, CodecOpen(a.fullname, ARCHIVE_7Z)), 0, 0)
    ELSE Step([a EXCEPT !.files = AppendEntries(a.files, a.fullname, ARCHIVE_ZIP, 1)], Nil, 1, 1)

loadFilesIn7ZArchive(a) ==
    IF CodecOpen(a.fullname, ARCHIVE_7Z) # Nil
        THEN Step(a, Wrap(a.fullname, CodecOpen(a.fullname, ARCHIVE_7Z)), 0, 0)
    ELSE Step([a EXCEPT !.files = AppendEntries(a.files, a.fullname, ARCHIVE_7Z, 1)], Nil, 1, 1)

RECURSIVE TgzLoop(_, _, _)
\* for head != nil && err == nil { append; head, err = tarReader.Next() }:
\* r is the result of the k-th Next; yields the files and the error the loop ends with
TgzLoop(files, fullname, k) ==
    LET r == TarNext(k)
    IN IF r.head # 0 /\ r.err = Nil
       THEN TgzLoop(Append(files, ArchivedFile(fullname, ARCHIVE_TGZ, disk.members[r.head].name,
                                               Len(disk.members[r.head].data))),
                    fullname, k + 1)
       ELSE [files |-> files, err |-> r.err]

\* variant: the end of the archive is returned as an error
loadFilesInTgzArchive_EofIsError(a) ==
    IF OsOpen(a.fullname) # Nil THEN Step(a, Wrap(a.fullname, OsOpen(a.fullname)), 0, 0)
    ELSE IF CodecHeader(ARCHIVE_TGZ) # Nil
        THEN Step(a, Wrap(a.fullname, CodecHeader(ARCHIVE_TGZ)), 1, 1)
    ELSE LET l == TgzLoop(a.files, a.fullname, 1)
         IN Step([a EXCEPT !.files = l.files], l.err, 2, 2)

loadFilesInTgzArchive(a) ==
    IF OsOpen(a.fullname) # Nil THEN Step(a, Wrap(a.fullname, OsOpen(a.fullname)), 0, 0)
    ELSE IF CodecHeader(ARCHIVE_TGZ) # Nil
        THEN Step(a, Wrap(a.fullname, CodecHeader(ARCHIVE_TGZ)), 1, 1)
    ELSE LET l == TgzLoop(a.files, a.fullname, 1)
         IN Step([a EXCEPT !.files = l.files], IF l.err = EOF THEN Nil ELSE l.err, 2, 2)

\* ---- func GetArchiveInfo(path string) (ar *ArchiveInfo, err error) ----
GetArchiveInfo(path) ==
    LET located ==
            IF HasSeparator(path)
            THEN [ZeroInfo EXCEPT !.path = Dir(path), !.name = Base(path)]
            ELSE [ZeroInfo EXCEPT !.path = Getwd, !.name = path[1]]
        named == [located EXCEPT !.fullname = Join(located.path, located.name)]
        st == Stat(named.fullname)
        sniffed ==
            IF st.err = Nil THEN getArchiveType([named EXCEPT !.size = st.size])
            ELSE Step(named, st.err, 0, 0)
        loaded ==
            IF sniffed.err # Nil THEN sniffed
            ELSE IF sniffed.ar.ArchiveType = ARCHIVE_7Z THEN loadFilesIn7ZArchive(sniffed.ar)
            ELSE IF sniffed.ar.ArchiveType = ARCHIVE_TGZ THEN loadFilesInTgzArchive(sniffed.ar)
            ELSE IF sniffed.ar.ArchiveType = ARCHIVE_ZIP THEN loadFilesInZipArchive(sniffed.ar)
            ELSE Step(sniffed.ar, Nil, 0, 0)
    IN IF HasSeparator(path) /\ Len(Dir(path)) = 0 THEN Step(ZeroInfo, Nil, 0, 0)
       ELSE Step(loaded.ar, loaded.err,
                 sniffed.opened + (IF sniffed.err = Nil THEN loaded.opened ELSE 0),
                 sniffed.closed + (IF sniffed.err = Nil THEN loaded.closed ELSE 0))

\* ---- func (ai *ArchiveInfo) File(fname string) *ArchivedFile ----
RECURSIVE IndexFrom(_, _, _)
\* slices.IndexFunc(files, func(e) bool { return e.name == fname }), scanning from k:
\* the position of the first match counted from 1, 0 where the code has -1
IndexFrom(files, fname, k) ==
    IF k > Len(files) THEN 0
    ELSE IF files[k].name = fname THEN k
    ELSE IndexFrom(files, fname, k + 1)

RECURSIVE IndexBack(_, _, _)
IndexBack(files, fname, k) ==
    IF k = 0 THEN 0
    ELSE IF files[k].name = fname THEN k
    ELSE IndexBack(files, fname, k - 1)

\* variant: the last match wins
IndexFunc_Last(files, fname) == IndexBack(files, fname, Len(files))

IndexFunc(files, fname) == IndexFrom(files, fname, 1)

\* the entry returned, as its position in ai.files; 0 is the nil pointer
File(a, fname) ==
    IF Len(a.files) = 0 THEN 0 ELSE IndexFunc(a.files, fname)

\* ---- the three extractors ----
\* what an extractor returns (bytes, is the slice nil, error) and what it did on the way:
\* handles opened and closed, which extractor ran, did the content Read fail
Out(bytes, isnil, err, opened, closed, extractor, readFailed) ==
    [bytes |-> bytes, isnil |-> isnil, err |-> err, opened |-> opened, closed |-> closed,
     extractor |-> extractor, readFailed |-> readFailed]

extractZipFileBytes(af) ==
    LET buffer == MakeBytes(af.size)
        operr == CodecOpen(af.archivefile, ARCHIVE_ZIP)
        k == IndexFrom(ReaderFile, af.name, 1)
    IN IF operr # Nil THEN Out(<<>>, TRUE, Wrap(af.archivefile, operr), 0, 0, ARCHIVE_ZIP, FALSE)
       ELSE IF k = 0 THEN Out(buffer, FALSE, operr, 1, 1, ARCHIVE_ZIP, FALSE)
       ELSE IF EntryOpen(k) # Nil THEN Out(<<>>, TRUE, EntryOpen(k), 1, 1, ARCHIVE_ZIP, FALSE)
       ELSE Out(ContentRead(buffer, k), FALSE, operr, 2, 2, ARCHIVE_ZIP, ReadFails(k))

\* variant: the open fails while a reader left open by an earlier call holds the file
extract7ZFileBytes_Busy(af) ==
    LET operr == IF open > 0 THEN EACCES ELSE CodecOpen(af.archivefile, ARCHIVE_7Z)
        buffer == MakeBytes(af.size)
        k == IndexFrom(ReaderFile, af.name, 1)
    IN IF operr # Nil THEN Out(<<>>, TRUE, Wrap(af.archivefile, operr), 0, 0, ARCHIVE_7Z, FALSE)
       ELSE IF k = 0 THEN Out(buffer, FALSE, operr, 1, 0, ARCHIVE_7Z, FALSE)
       ELSE IF EntryOpen(k) # Nil THEN Out(<<>>, TRUE, EntryOpen(k), 1, 0, ARCHIVE_7Z, FALSE)
       ELSE Out(ContentRead(buffer, k), FALSE, operr, 2, 1, ARCHIVE_7Z, ReadFails(k))

extract7ZFileBytes(af) ==
    LET operr == CodecOpen(af.archivefile, ARCHIVE_7Z)
        buffer == MakeBytes(af.size)
        k == IndexFrom(ReaderFile, af.name, 1)
    IN IF operr # Nil THEN Out(<<>>, TRUE, Wrap(af.archivefile, operr), 0, 0, ARCHIVE_7Z, FALSE)
       ELSE IF k = 0 THEN Out(buffer, FALSE, operr, 1, 0, ARCHIVE_7Z, FALSE)
       ELSE IF EntryOpen(k) # Nil THEN Out(<<>>, TRUE, EntryOpen(k), 1, 0, ARCHIVE_7Z, FALSE)
       ELSE Out(ContentRead(buffer, k), FALSE, operr, 2, 1, ARCHIVE_7Z, ReadFails(k))

RECURSIVE TgzLocate(_, _)
\* head, err := tarReader.Next(); for head != nil && err == nil { if head.Name != af.name
\* { head, err = tarReader.Next(); continue }; break }: r is the result of the k-th Next
TgzLocate(fname, k) ==
    LET r == TarNext(k)
    IN IF r.head # 0 /\ r.err = Nil /\ disk.members[r.head].name # fname
       THEN TgzLocate(fname, k + 1)
       ELSE r

\* tarReader.Read(buffer) after the scan: the reader yields nothing once Next has failed
TarRead(buffer, r) == IF r.err = Nil THEN ContentRead(buffer, r.head) ELSE buffer

\* variant: the end of the archive is turned into a nil error, as the cataloger does
extractTgzFileBytes_EofIsNil(af) ==
    LET buffer == MakeBytes(af.size)
        r == TgzLocate(af.name, 1)
    IN IF OsOpen(af.archivefile) # Nil
           THEN Out(<<>>, TRUE, Wrap(af.archivefile, OsOpen(af.archivefile)), 0, 0, ARCHIVE_TGZ, FALSE)
       ELSE IF CodecHeader(ARCHIVE_TGZ) # Nil
           THEN Out(<<>>, TRUE, Wrap(af.archivefile, CodecHeader(ARCHIVE_TGZ)), 1, 1, ARCHIVE_TGZ, FALSE)
       ELSE Out(TarRead(buffer, r), FALSE, IF r.err = EOF THEN Nil ELSE r.err, 2, 2, ARCHIVE_TGZ,
                r.err = Nil /\ ReadFails(r.head))

extractTgzFileBytes(af) ==
    LET buffer == MakeBytes(af.size)
        r == TgzLocate(af.name, 1)
    IN IF OsOpen(af.archivefile) # Nil
           THEN Out(<<>>, TRUE, Wrap(af.archivefile, OsOpen(af.archivefile)), 0, 0, ARCHIVE_TGZ, FALSE)
       ELSE IF CodecHeader(ARCHIVE_TGZ) # Nil
           THEN Out(<<>>, TRUE, Wrap(af.archivefile, CodecHeader(ARCHIVE_TGZ)), 1, 1, ARCHIVE_TGZ, FALSE)
       ELSE Out(TarRead(buffer, r), FALSE, r.err, 2, 2, ARCHIVE_TGZ,
                r.err = Nil /\ ReadFails(r.head))

\* ---- func (af *ArchivedFile) GetBytes() ([]byte, error) ----
\* variant: an unknown type tag falls through to the zip extractor
GetBytes_DefaultZip(af) ==
    IF af.archivetype = ARCHIVE_7Z THEN extract7ZFileBytes(af)
    ELSE IF af.archivetype = ARCHIVE_TGZ THEN extractTgzFileBytes(af)
    ELSE extractZipFileBytes(af)

GetBytes(af) ==
    IF af.archivetype = ARCHIVE_7Z THEN extract7ZFileBytes(af)
    ELSE IF af.archivetype = ARCHIVE_TGZ THEN extractTgzFileBytes(af)
    ELSE IF af.archivetype = ARCHIVE_ZIP THEN extractZipFileBytes(af)
    ELSE Out(<<>>, TRUE, ErrUnsupported, 0, 0, ARCHIVE_UNINIT, FALSE)

\* ---- the calls a client makes ----
\* paths given to GetArchiveInfo: bare names and names under the working directory
Paths == { <<n>> : n \in FileNames } \cup { Join(Getwd, "f.zip") }

\* names looked up
LookupNames == Names \cup {"figgle.foo"}

\* entries built by hand inside the package: any type tag, a name no container holds
Tags == ARCHIVE_UNINIT..(ARCHIVE_7Z + 1)
HandMade ==
    { ArchivedFile(disk.fullname, t, "figgle.foo", n) : t \in Tags, n \in {0, MaxPayload} }

NoArg == ArchivedFile(<<>>, ARCHIVE_UNINIT, "", 0)
NoOut == Out(<<>>, TRUE, Nil, 0, 0, ARCHIVE_UNINIT, FALSE)
Ret(op, fname, idx, af, out) ==
    [op |-> op, fname |-> fname, idx |-> idx, af |-> af, out |-> out]
NoFirst == [idx |-> 0, bytes |-> <<>>, isnil |-> TRUE, err |-> Nil, again |-> FALSE]

CallGetArchiveInfo ==
    \E path \in Paths :
        LET r == GetArchiveInfo(path)
        IN /\ ar' = r.ar
           /\ ret' = Ret("GetArchiveInfo", "", 0, NoArg,
                         [NoOut EXCEPT !.err = r.err, !.opened = r.opened, !.closed = r.closed])
           /\ open' = open + r.opened - r.closed
           /\ first' = NoFirst
           /\ UNCHANGED disk

CallFile ==
    \E fname \in LookupNames :
        /\ ret' = Ret("File", fname, File(ar, fname), NoArg, NoOut)
        /\ UNCHANGED <<disk, ar, open, first>>

\* GetBytes on the i-th entry of ar.Files()
CallGetBytes ==
    \E i \in 1..Len(ar.files) :
        LET r == GetBytes(ar.files[i])
        IN /\ open + r.opened - r.closed <= MaxLeak
           /\ ret' = Ret("GetBytes", "", i, ar.files[i], r)
           /\ open' = open + r.opened - r.closed
           /\ first' = IF first = NoFirst
                       THEN [idx |-> i, bytes |-> r.bytes, isnil |-> r.isnil, err |-> r.err,
                             again |-> FALSE]
                       ELSE IF first.idx = i THEN [first EXCEPT !.again = TRUE]
                       ELSE first
           /\ UNCHANGED <<disk, ar>>

\* GetBytes on an entry that no cataloger built
CallGetBytesOn ==
    \E af \in HandMade :
        LET r == GetBytes(af)
        IN /\ open + r.opened - r.closed <= MaxLeak
           /\ ret' = Ret("GetBytesOn", "", 0, af, r)
           /\ open' = open + r.opened - r.closed
           /\ UNCHANGED <<disk, ar, first>>

Start ==
    /\ ar = ZeroInfo
    /\ ret = Ret("none", "", 0, NoArg, NoOut)
    /\ open = 0
    /\ first = NoFirst

Init == disk \in ArchiveDisks \cup PlainDisks /\ Start

InitSniff == disk \in SniffDisks /\ Start

Next == CallGetArchiveInfo \/ CallFile \/ CallGetBytes \/ CallGetBytesOn

Spec == Init /\ [][Next]_vars

SpecSniff == InitSniff /\ [][Next]_vars

\* ======================= properties =======================
Kinds == {ARCHIVE_ZIP, ARCHIVE_TGZ, ARCHIVE_7Z}
IsGetBytes == ret.op \in {"GetBytes", "GetBytesOn"}
\* the catalog of the first k members of the file on the disk
CatalogOf(k) ==
    [i \in 1..k |-> ArchivedFile(disk.fullname, Format, disk.members[i].name,
                                 Len(disk.members[i].data))]
NameOnce(fname) == Cardinality({k \in 1..Len(disk.members) : disk.members[k].name = fname}) = 1

\* C1: GetBytes on a cataloged entry of a sound archive (no failing call, the entry's
\* name held once) returns, with a nil error, exactly entry.size bytes that are the
\* member's payload, whatever number of bytes one Read of the decoder delivers.
C1_ExtractIsPayload ==
    (ret.op = "GetBytes" /\ disk.fault = NoFault /\ NameOnce(ret.af.name))
        => /\ ret.out.err = Nil
           /\ Len(ret.out.bytes) = ret.af.size
           /\ ret.out.bytes = disk.members[ret.idx].data

\* the type the claim C2 gives to a file of this size with these leading bytes
ClaimedType(size, head) ==
    IF size < 5 THEN ARCHIVE_NA
    ELSE IF SubSeq(head, 1, 4) = <<80, 75, 3, 4>> THEN ARCHIVE_ZIP
    ELSE IF SubSeq(head, 1, 4) = <<55, 122, 188, 175>> THEN ARCHIVE_7Z
    ELSE IF SubSeq(head, 1, 2) = <<31, 139>> THEN ARCHIVE_TGZ
    ELSE ARCHIVE_NA

\* C2: after GetArchiveInfo on an existing file, a file smaller than 5 bytes is
\* NotAnArchive with a nil error and no handle opened; a larger file that can be
\* opened has the type its leading bytes give, whatever its name is.
C2_TypeFromSizeAndBytes ==
    (ret.op = "GetArchiveInfo" /\ ar.fullname = disk.fullname)
        => /\ disk.size < 5 =>
                (ar.ArchiveType = ARCHIVE_NA /\ ret.out.err = Nil /\ ret.out.opened = 0)
           /\ (disk.size >= 5 /\ OsOpen(disk.fullname) = Nil) =>
                ar.ArchiveType = ClaimedType(disk.size, disk.head)

\* a file named f.zip that holds a gzip stream is typed by its bytes
C2_Witness ==
    /\ ret.op = "GetArchiveInfo"
    /\ disk.fullname = Join(Getwd, "f.zip")
    /\ ar.fullname = disk.fullname
    /\ disk.head = GzHead
    /\ ar.ArchiveType = ARCHIVE_TGZ

\* C3: File(name) returns nil when no entry has exactly that name, and else the
\* first entry of the catalog with exactly that name.
C3_FileFirstExactMatch ==
    ret.op = "File" =>
        LET hits == {k \in 1..Len(ar.files) : ar.files[k].name = ret.fname}
        IN /\ hits = {} => ret.idx = 0
           /\ hits # {} => (ret.idx \in hits /\ \A k \in hits : ret.idx <= k)

\* a lookup of a name that two entries carry
C3_Witness ==
    /\ ret.op = "File"
    /\ ret.idx = 1
    /\ Len(ar.files) >= 2
    /\ ar.files[2].name = ret.fname

\* GetBytes re-opened the container and scanned it to the end without a match
NoMatchScan ==
    /\ IsGetBytes
    /\ ret.af.archivetype \in Kinds
    /\ CodecOpen(ret.af.archivefile, ret.af.archivetype) = Nil
    /\ \A k \in 1..Len(disk.members) : disk.members[k].name # ret.af.name
    /\ disk.fault.kind # "tar"

\* C4 as stated: a scan that ends without a match returns a zero-length byte
\* sequence and a nil error, in each of the three formats.
C4_NoMatchEmptyNoError ==
    NoMatchScan => (Len(ret.out.bytes) = 0 /\ ret.out.err = Nil)

\* C4 amended: a scan that ends without a match returns a non-nil byte sequence of
\* entry.size zero bytes; the error is nil for Zip and SevenZip and is the tar
\* reader's end-of-archive error for GzippedTar.
C4_NoMatchZeroFilled ==
    NoMatchScan =>
        /\ ~ret.out.isnil
        /\ ret.out.bytes = [i \in 1..ret.af.size |-> 0]
        /\ ret.af.archivetype \in {ARCHIVE_ZIP, ARCHIVE_7Z} => ret.out.err = Nil
        /\ ret.af.archivetype = ARCHIVE_TGZ => ret.out.err = EOF

C4_Witness ==
    /\ NoMatchScan
    /\ ret.af.archivetype = ARCHIVE_TGZ
    /\ ret.af.size > 0
    /\ Len(disk.members) > 0

C6_Dispatch ==
    IsGetBytes =>
        IF ret.af.archivetype \in Kinds
        THEN ret.out.extractor = ret.af.archivetype
        ELSE ret.out.err = ErrUnsupported /\ ret.out.isnil /\ ret.out.opened = 0

C6_Witness ==
    /\ ret.op = "GetBytesOn"
    /\ ret.af.archivetype = ARCHIVE_7Z + 1
    /\ ret.out.err = ErrUnsupported

\* C7: between calls no codec or file handle is open.
C7_NoOpenHandles == open = 0

\* the tar header scan of the last GetBytes call failed
ScanFailed ==
    /\ ret.af.archivetype = ARCHIVE_TGZ
    /\ OsOpen(ret.af.archivefile) = Nil
    /\ CodecHeader(ARCHIVE_TGZ) = Nil
    /\ TgzLocate(ret.af.name, 1).err = ErrTar

\* C8: when the content read or the tar header scan of a GetBytes call fails, the
\* call returns a non-nil error.
C8_ReadErrorReturned ==
    (IsGetBytes /\ (ret.out.readFailed \/ ScanFailed)) => ret.out.err # Nil

\* C9: cataloging a gzip-tar that ends with the end-of-archive signal returns a nil
\* error and every header in read order; a tar read error is returned with the
\* entries read before it; a failed codec open, in each format, returns an error
\* and appends nothing.
C9_CatalogError ==
    (ret.op = "GetArchiveInfo" /\ ar.fullname = disk.fullname /\ OsOpen(disk.fullname) = Nil
     /\ Format \in Kinds)
        => /\ disk.fault.kind = "codec" => (ret.out.err # Nil /\ ar.files = <<>>)
           /\ (Format = ARCHIVE_TGZ /\ disk.fault.kind \notin {"codec", "tar"}) =>
                (ret.out.err = Nil /\ ar.files = CatalogOf(Len(disk.members)))
           /\ (Format = ARCHIVE_TGZ /\ disk.fault.kind = "tar") =>
                (ret.out.err # Nil /\ ar.files = CatalogOf(disk.fault.at - 1))

\* a tar read error after at least one header was read
C9_Witness ==
    /\ ret.op = "GetArchiveInfo"
    /\ disk.fault.kind = "tar"
    /\ Len(ar.files) >= 1
    /\ ret.out.err = ErrTar

\* C10: every entry of Files() carries the handle's type, one of the three kinds,
\* and the handle's full path; Files() is empty under Uninitialized and
\* NotAnArchive; GetBytes on a cataloged entry never returns the unsupported-type
\* error.
C10_EntriesCarryHandleType ==
    /\ \A i \in 1..Len(ar.files) :
            /\ ar.files[i].archivetype = ar.ArchiveType
            /\ ar.files[i].archivetype \in Kinds
            /\ ar.files[i].archivefile = ar.fullname
    /\ ar.ArchiveType \in {ARCHIVE_UNINIT, ARCHIVE_NA} => ar.files = <<>>
    /\ ret.op = "GetBytes" => ret.out.err # ErrUnsupported

C10_Witness ==
    /\ ret.op = "GetBytes"
    /\ ar.ArchiveType = ARCHIVE_7Z
    /\ Len(ar.files) >= 2
    /\ ret.out.err = Nil

====
